---- MODULE Spec2Model ----
(***************************************************************************)
(* hntui: the Bubble Tea model of src/main.go (the last, complete version  *)
(* of the program, lines 269-663): the view state held by `model`, the     *)
(* package-level page counter, the fetch commands that run in their own    *)
(* goroutines, and the window computed by View.                            *)
(*                                                                         *)
(* A Story is modelled by its id (0 is the zero-value Story); the id list  *)
(* returned by the remote feed is 1..feedLen in rank order, so the id at   *)
(* 0-based index k is k+1.  A Comment is the pair <<story id, rank>>.      *)
(* commentHeights (a render cache derived from comments and width) and the *)
(* lipgloss styling are left out: nothing reads them but the renderer.     *)
(***************************************************************************)
EXTENDS Integers, Sequences, FiniteSets, Bags

\* const MAX = 20
MAX == 20

\* ---- bounds of the model ----
\* page++ is taken only while page < PageCap, page-- only while page > -PageFloor
PageCap == 2
PageFloor == 1
\* at most this many fetch commands are running or undelivered at once
MaxInFlight == 2
\* a story has at most this many kids
MaxKids == 2
\* item requests may fail only in the first MaxFailSlot slots of a batch
MaxFailSlot == 1
\* in the paging scenario the story cursor stays within 0..NavSpan
NavSpan == 1

\* lengths of the id list the feed returns
FeedLens == {0, 5, 20, 25}
\* terminal sizes <<width, height>> a WindowSizeMsg may carry
Sizes == {<<40, 4>>, <<80, 6>>, <<80, 8>>, <<120, 32>>, <<200, 65>>}

VARIABLES
    stories,        \* m.stories  [MAX]Story
    comments,       \* m.comments []Comment
    cursor,         \* m.cursor
    commentCursor,  \* m.commentCursor
    loading,        \* m.loading
    commentsView,   \* m.commentsView
    err,            \* m.err: "nil" or "error"
    width,          \* m.width
    height,         \* m.height
    page,           \* var page (package level)
    feedLen,        \* len(storiesID): what the remote feed returns
    cmds,           \* bag of fetch commands issued and not yet delivered
    status          \* "running", "quit" (tea.Quit) or "crashed" (panic)

vars == <<stories, comments, cursor, commentCursor, loading, commentsView,
          err, width, height, page, feedLen, cmds, status>>

\* ---- helpers ----
Max(a, b) == IF a >= b THEN a ELSE b

\* Go's integer division truncates toward zero (d > 0)
GoDiv(a, d) == IF a >= 0 THEN a \div d ELSE -((-a) \div d)

ZeroStories == [i \in 1..MAX |-> 0]

\* story.Kids of the story with this id: in the feed of the model the story
\* at rank k <= MaxKids of each page has k kids, the others (and the
\* zero-value Story) have none
NumKids(id) == IF id % MAX \in 1..MaxKids THEN id % MAX ELSE 0
Kids(id) == [j \in 1..NumKids(id) |-> <<id, j>>]

\* the elements of s whose index is not in drop, in order
RECURSIVE Keep(_, _)
Keep(s, drop) ==
    IF s = <<>> THEN <<>>
    ELSE LET rest == Keep(Tail(s), {i - 1 : i \in drop \ {1}})
         IN IF 1 \in drop THEN rest ELSE <<Head(s)>> \o rest

\* ---- commands ----
\* A running command.  kind, pc (where the goroutine stands), start and end
\* (its locals) and kids (the Kids of the Story captured by the closure of
\* "c", all that fetchComments reads of it) are the program's; by and issued
\* are history: the event that issued the command
\* ("init", "r", "rl" for "r" pressed while loading, "pgup", "pgdown", "c") and the
\* value of page at that moment.
StoriesCmd(by, issued) ==
    [kind |-> "stories", pc |-> "start", start |-> 0, end |-> 0,
     kids |-> <<>>, by |-> by, issued |-> issued]
CommentsCmd(story) ==
    [kind |-> "comments", pc |-> "done", start |-> 0, end |-> 0,
     kids |-> Kids(story), by |-> "c", issued |-> 0]

InFlight == BagCardinality(cmds)
Issue(c) == cmds (+) SetToBag({c})
Retire(c) == cmds (-) SetToBag({c})
Replace(c, d) == (cmds (-) SetToBag({c})) (+) SetToBag({d})

\* the command fetchTopStories as handed to the runtime by Init, "r", "pgup"
\* and "pgdown": the function takes no argument and reads the package-level
\* page when it runs
fetchTopStories(by, p) == StoriesCmd(by, p)

Running == status = "running"

Init ==
    /\ stories = ZeroStories
    /\ comments = <<>>
    /\ cursor = 0
    /\ commentCursor = 0
    /\ loading = TRUE
    /\ commentsView = FALSE
    /\ err = "nil"
    /\ width = 0
    /\ height = 0
    /\ page = 0
    /\ feedLen \in FeedLens
    /\ cmds = SetToBag({fetchTopStories("init", 0)})
    /\ status = "running"

\* ---- fetchTopStories, running in its own goroutine ----
\* start := max(0, page*MAX)
FirstStart(p) == Max(0, p * MAX)
\* page = len(storiesID)/MAX - 1
ClampedPage(n) == GoDiv(n, MAX) - 1
\* if end > len(storiesID) { end = len(storiesID) }
ClampEnd(e, n) == IF e > n THEN n ELSE e
\* storiesID[start:end] panics unless 0 <= start <= end (end <= len holds)
SliceOK(start, end) == 0 <= start /\ start <= end
\* the [MAX]Story array filled from storiesID[start:end]; the slots whose
\* item request failed keep the zero value
PageSlots(start, end, failed) ==
    [i \in 1..MAX |-> IF start + i <= end /\ i \notin failed THEN start + i ELSE 0]
\* the sets of slots whose item request may fail
FailSets == SUBSET (1..MaxFailSlot)

\* lines 345-366: the id list arrives and page is read
FetchReadPage(c) ==
    /\ Running
    /\ c.kind = "stories" /\ c.pc = "start"
    /\ LET s == FirstStart(page) IN
        IF s >= feedLen
        THEN cmds' = Replace(c, [c EXCEPT !.pc = "write"])
        ELSE cmds' = Replace(c, [c EXCEPT !.pc = "done", !.start = s,
                                          !.end = ClampEnd(s + MAX, feedLen)])
    /\ UNCHANGED <<stories, comments, cursor, commentCursor, loading,
                   commentsView, err, width, height, page, feedLen, status>>

\* line 367: the goroutine writes the package-level page
FetchStorePage(c) ==
    /\ Running
    /\ c.kind = "stories" /\ c.pc = "write"
    /\ page' = ClampedPage(feedLen)
    /\ cmds' = Replace(c, [c EXCEPT !.pc = "reread"])
    /\ UNCHANGED <<stories, comments, cursor, commentCursor, loading,
                   commentsView, err, width, height, feedLen, status>>

\* lines 368-373: page is read again
FetchRereadPage(c) ==
    /\ Running
    /\ c.kind = "stories" /\ c.pc = "reread"
    /\ cmds' = Replace(c, [c EXCEPT !.pc = "done", !.start = page * MAX,
                                    !.end = ClampEnd(page * MAX + MAX, feedLen)])
    /\ UNCHANGED <<stories, comments, cursor, commentCursor, loading,
                   commentsView, err, width, height, page, feedLen, status>>

\* line 375: the slice expression panics and the process dies
FetchPanic(c) ==
    /\ Running
    /\ c.kind = "stories" /\ c.pc = "done"
    /\ ~SliceOK(c.start, c.end)
    /\ status' = "crashed"
    /\ UNCHANGED <<stories, comments, cursor, commentCursor, loading,
                   commentsView, err, width, height, page, feedLen, cmds>>

\* ---- Update ----
\* case tea.WindowSizeMsg
UpdateWindowSize(w, h) ==
    /\ Running
    /\ width' = w
    /\ height' = h
    /\ UNCHANGED <<stories, comments, cursor, commentCursor, loading,
                   commentsView, err, page, feedLen, cmds, status>>

\* case loadedStoriesMsg: the item loop of lines 375-392 and the delivery
UpdateLoadedStories(c, failed) ==
    /\ Running
    /\ c.kind = "stories" /\ c.pc = "done"
    /\ SliceOK(c.start, c.end)
    /\ stories' = PageSlots(c.start, c.end, failed)
    /\ loading' = FALSE
    /\ cmds' = Retire(c)
    /\ UNCHANGED <<comments, cursor, commentCursor, commentsView, err,
                   width, height, page, feedLen, status>>

\* the []Comment fetchComments builds: a failed item is skipped
LoadedComments(kids, failed) == Keep(kids, failed)

\* case loadedCommentsMsg: fetchComments (lines 395-417) and the delivery
UpdateLoadedComments(c, failed) ==
    /\ Running
    /\ c.kind = "comments"
    /\ comments' = LoadedComments(c.kids, failed)
    /\ loading' = FALSE
    /\ commentCursor' = 0
    /\ cmds' = Retire(c)
    /\ UNCHANGED <<stories, cursor, commentsView, err, width, height,
                   page, feedLen, status>>

\* UpdateErr dropping the stories on screen together with the error
UpdateErrClearsStories(c) ==
    /\ Running
    /\ c.kind = "stories" /\ c.pc = "start"
    /\ err' = "error"
    /\ loading' = FALSE
    /\ stories' = ZeroStories
    /\ cmds' = Retire(c)
    /\ UNCHANGED <<comments, cursor, commentCursor, commentsView,
                   width, height, page, feedLen, status>>

\* case errMsg: the id list request of lines 345-359 failed
UpdateErr(c) ==
    /\ Running
    /\ c.kind = "stories" /\ c.pc = "start"
    /\ err' = "error"
    /\ loading' = FALSE
    /\ cmds' = Retire(c)
    /\ UNCHANGED <<stories, comments, cursor, commentCursor, commentsView,
                   width, height, page, feedLen, status>>

\* case "ctrl+c", "q"
KeyQuit ==
    /\ Running
    /\ status' = "quit"
    /\ UNCHANGED <<stories, comments, cursor, commentCursor, loading,
                   commentsView, err, width, height, page, feedLen, cmds>>

\* case "up", "k"
KeyUp ==
    /\ Running
    /\ IF commentsView
       THEN /\ commentCursor' = IF commentCursor > 0 THEN commentCursor - 1
                                ELSE commentCursor
            /\ cursor' = cursor
       ELSE /\ cursor' = IF cursor > 0 THEN cursor - 1 ELSE cursor
            /\ commentCursor' = commentCursor
    /\ UNCHANGED <<stories, comments, loading, commentsView, err, width,
                   height, page, feedLen, cmds, status>>

\* KeyDown wrapping around to the first item at the end of the list
KeyDownWraps ==
    /\ Running
    /\ IF commentsView
       THEN /\ commentCursor' = IF commentCursor < Len(comments) - 1
                                THEN commentCursor + 1 ELSE 0
            /\ cursor' = cursor
       ELSE /\ cursor' = IF cursor < MAX - 1 THEN cursor + 1 ELSE 0
            /\ commentCursor' = commentCursor
    /\ UNCHANGED <<stories, comments, loading, commentsView, err, width,
                   height, page, feedLen, cmds, status>>

\* case "down", "j"
KeyDown ==
    /\ Running
    /\ IF commentsView
       THEN /\ commentCursor' = IF commentCursor < Len(comments) - 1
                                THEN commentCursor + 1 ELSE commentCursor
            /\ cursor' = cursor
       ELSE /\ cursor' = IF cursor < MAX - 1 THEN cursor + 1 ELSE cursor
            /\ commentCursor' = commentCursor
    /\ UNCHANGED <<stories, comments, loading, commentsView, err, width,
                   height, page, feedLen, cmds, status>>

\* case "r"
KeyR ==
    /\ Running
    /\ InFlight < MaxInFlight
    /\ loading' = TRUE
    /\ cmds' = Issue(fetchTopStories(IF loading THEN "rl" ELSE "r", page))
    /\ UNCHANGED <<stories, comments, cursor, commentCursor, commentsView,
                   err, width, height, page, feedLen, status>>

\* KeyC putting the story cursor back to the top when comments are left
KeyCResetsCursor ==
    /\ Running
    /\ IF ~commentsView
       THEN /\ InFlight < MaxInFlight
            /\ commentsView' = TRUE
            /\ loading' = TRUE
            /\ cmds' = Issue(CommentsCmd(stories[cursor + 1]))
            /\ cursor' = cursor
       ELSE /\ commentsView' = FALSE
            /\ cursor' = 0
            /\ UNCHANGED <<loading, cmds>>
    /\ UNCHANGED <<stories, comments, commentCursor, err, width,
                   height, page, feedLen, status>>

\* case "c"
KeyC ==
    /\ Running
    /\ IF ~commentsView
       THEN /\ InFlight < MaxInFlight
            /\ commentsView' = TRUE
            /\ loading' = TRUE
            /\ cmds' = Issue(CommentsCmd(stories[cursor + 1]))
       ELSE /\ commentsView' = FALSE
            /\ UNCHANGED <<loading, cmds>>
    /\ UNCHANGED <<stories, comments, cursor, commentCursor, err, width,
                   height, page, feedLen, status>>

\* page++ / page-- in Update race with the store of line 367 in a running
\* fetchTopStories: either the accesses are ordered (lost = {}), or the
\* goroutine's store falls between the load and the store of the handler
\* and is overwritten (lost = {c})
AfterRacyStore(lost) ==
    IF lost = {} THEN cmds
    ELSE LET c == CHOOSE x \in lost : TRUE
         IN Replace(c, [c EXCEPT !.pc = "reread"])
Storing == {{}} \cup {{c} : c \in {x \in BagToSet(cmds) : x.pc = "write"}}

\* case "pgup", "l"
KeyPgUp(lost) ==
    /\ Running
    /\ InFlight < MaxInFlight
    /\ page < PageCap
    /\ page' = page + 1
    /\ loading' = TRUE
    /\ cmds' = AfterRacyStore(lost) (+) SetToBag({fetchTopStories("pgup", page + 1)})
    /\ UNCHANGED <<stories, comments, cursor, commentCursor, commentsView,
                   err, width, height, feedLen, status>>

\* case "pgdown", "h"
KeyPgDown(lost) ==
    /\ Running
    /\ InFlight < MaxInFlight
    /\ page > -PageFloor
    /\ page' = page - 1
    /\ loading' = TRUE
    /\ cmds' = AfterRacyStore(lost) (+) SetToBag({fetchTopStories("pgdown", page - 1)})
    /\ UNCHANGED <<stories, comments, cursor, commentCursor, commentsView,
                   err, width, height, feedLen, status>>

\* case "enter": openURL(m.stories[m.cursor].URL), no change of the model
KeyEnter ==
    /\ Running
    /\ UNCHANGED vars

\* ---- View ----
\* maxVisible := (m.height - 5) / 3
StoriesMaxVisible(h) == GoDiv(h - 5, 3)
\* maxVisible := (m.height - 2) / 3
CommentsMaxVisible(h) == GoDiv(h - 2, 3)

\* StoriesWindow without the early exit for a list that fits and without
\* the second derivation of visibleStart: centre on the cursor, cut the end
StoriesWindowNaive(total, cur, h) ==
    IF h > 0
    THEN LET maxVisible == StoriesMaxVisible(h)
             visibleStart == Max(cur - GoDiv(maxVisible, 2), 0)
             visibleEnd == visibleStart + maxVisible
         IN <<visibleStart, IF visibleEnd > total THEN total ELSE visibleEnd>>
    ELSE <<0, total>>

\* StoriesWindow with a single clamp: visibleStart is not derived again
\* after visibleEnd is cut to the length of the list
StoriesWindowSingleClamp(total, cur, h) ==
    IF h > 0 /\ StoriesMaxVisible(h) < total
    THEN LET maxVisible == StoriesMaxVisible(h)
             visibleStart == Max(cur - GoDiv(maxVisible, 2), 0)
             visibleEnd == visibleStart + maxVisible
         IN IF visibleEnd > total
            THEN <<visibleStart, total>>
            ELSE <<visibleStart, visibleEnd>>
    ELSE <<0, total>>

\* lines 585-598: <<visibleStart, visibleEnd>> of the stories list
StoriesWindow(total, cur, h) ==
    IF h > 0 /\ StoriesMaxVisible(h) < total
    THEN LET maxVisible == StoriesMaxVisible(h)
             visibleStart == Max(cur - GoDiv(maxVisible, 2), 0)
             visibleEnd == visibleStart + maxVisible
         IN IF visibleEnd > total
            THEN <<Max(total - maxVisible, 0), total>>
            ELSE <<visibleStart, visibleEnd>>
    ELSE <<0, total>>

\* lines 535-548: <<visibleStart, visibleEnd>> of the comments list
CommentsWindow(total, cur, h) ==
    IF h > 0 /\ CommentsMaxVisible(h) > 0 /\ CommentsMaxVisible(h) < total
    THEN LET maxVisible == CommentsMaxVisible(h)
             visibleStart == Max(cur - GoDiv(maxVisible, 2), 0)
             visibleEnd == visibleStart + maxVisible
         IN IF visibleEnd > total
            THEN <<Max(total - maxVisible, 0), total>>
            ELSE <<visibleStart, visibleEnd>>
    ELSE <<0, total>>

\* what View returns: the error screen (lines 524-526), or the list of the
\* active mode with its window
Screen ==
    IF err # "nil" THEN "error"
    ELSE IF commentsView THEN "comments" ELSE "stories"
\* the list View windows, its cursor, and the rows left for it
ListTotal == IF commentsView THEN Len(comments) ELSE MAX
ListCursor == IF commentsView THEN commentCursor ELSE cursor
ListRows == IF commentsView THEN height - 2 ELSE height - 5
Window ==
    IF commentsView THEN CommentsWindow(Len(comments), commentCursor, height)
    ELSE StoriesWindow(MAX, cursor, height)

\* ---- specifications ----
\* The program accepts every event in every state.  Two scenarios bound what
\* the user and the network do, so that each can be explored exhaustively.

\* Browsing: the user moves the cursors over the whole list, resizes the
\* terminal and opens and closes comments; no paging, no refresh, and the
\* id list request succeeds.
NextView ==
    \/ \E c \in BagToSet(cmds) : FetchReadPage(c)
    \/ \E c \in BagToSet(cmds) : FetchStorePage(c)
    \/ \E c \in BagToSet(cmds) : FetchRereadPage(c)
    \/ \E c \in BagToSet(cmds) : FetchPanic(c)
    \/ \E sz \in Sizes : UpdateWindowSize(sz[1], sz[2])
    \/ \E c \in BagToSet(cmds), f \in FailSets : UpdateLoadedStories(c, f)
    \/ \E c \in BagToSet(cmds), f \in FailSets : UpdateLoadedComments(c, f)
    \/ KeyQuit
    \/ KeyUp
    \/ KeyDown
    \/ KeyC
    \/ KeyEnter

SpecView == Init /\ [][NextView]_vars

\* Paging: the user pages, refreshes and opens and closes comments while
\* fetches are running, and the id list request may fail; every item
\* request succeeds, the terminal is not resized, the story cursor stays
\* within 0..NavSpan and the user does not quit.
NextFetch ==
    \/ \E c \in BagToSet(cmds) : FetchReadPage(c)
    \/ \E c \in BagToSet(cmds) : FetchStorePage(c)
    \/ \E c \in BagToSet(cmds) : FetchRereadPage(c)
    \/ \E c \in BagToSet(cmds) : FetchPanic(c)
    \/ \E c \in BagToSet(cmds) : UpdateLoadedStories(c, {})
    \/ \E c \in BagToSet(cmds) : UpdateLoadedComments(c, {})
    \/ \E c \in BagToSet(cmds) : UpdateErr(c)
    \/ KeyUp
    \/ (cursor < NavSpan \/ commentsView) /\ KeyDown
    \/ KeyR
    \/ KeyC
    \/ \E lost \in Storing : KeyPgUp(lost)
    \/ \E lost \in Storing : KeyPgDown(lost)
    \/ KeyEnter

SpecFetch == Init /\ [][NextFetch]_vars

\* ==== properties ====
Min(a, b) == IF a <= b THEN a ELSE b
\* ceil(n/MAX) - 1: the index of the last page of a list of n ids
MaxPageIndex(n) == (n + MAX - 1) \div MAX - 1
\* the ids of page p of a list of n ids, slot by slot
PageOf(p, n) == PageSlots(p * MAX, ClampEnd(p * MAX + MAX, n), {})
\* the commands whose completion Update has not yet received
Pending == BagToSet(cmds)

\* C1: whenever View windows a non-empty list with at least one row left for
\* it (height-5 rows for stories, height-2 for comments), the window lies
\* inside the list and holds the item under the cursor.
C1_WindowContainsCursor ==
    (Screen # "error" /\ ListTotal > 0 /\ ListRows >= 1) =>
        /\ 0 <= Window[1] /\ Window[1] <= Window[2] /\ Window[2] <= ListTotal
        /\ Window[1] <= ListCursor /\ ListCursor < Window[2]

\* a comments completion is stale when the user has left Comments mode or
\* the story under the cursor no longer has the kids it was issued for
Stale(c) == ~commentsView \/ Kids(stories[cursor + 1]) # c.kids

\* C2: delivering a stale comments completion changes neither the comments,
\* nor the comment cursor, nor loading.
C2_StaleCommentsDiscarded ==
    [][\A c \in Pending :
          (Stale(c) /\ UpdateLoadedComments(c, {})) =>
              UNCHANGED <<comments, commentCursor, loading>>]_vars

\* C3: once every fetch has completed, on a page inside the list and with no
\* failure, the story slots are those of the current page (a slot may be
\* empty), whatever the order in which the completions were delivered.
C3_StaleStoriesIgnored ==
    (Running /\ cmds = EmptyBag /\ err = "nil"
       /\ page >= 0 /\ page * MAX < feedLen) =>
        \A i \in 1..MAX : stories[i] \in {0, PageOf(page, feedLen)[i]}

\* C4: once every story fetch issued has read the page counter (none is
\* still before or inside lines 363-370) and none has failed, the counter
\* is within 0..ceil(n/MAX)-1.
C4_PageClamped ==
    (Running /\ feedLen > 0 /\ err = "nil"
       /\ \A c \in Pending : c.kind = "stories" => c.pc = "done") =>
        (0 <= page /\ page <= MaxPageIndex(feedLen))

\* C5: the fetch issued by NextPage at the last page puts the page counter
\* back to the last page and, the counter left alone, loads the ids of that
\* last page.
C5_NextPageAtLastPage ==
    [][\A c \in Pending :
          (c.by = "pgup" /\ c.issued = MaxPageIndex(feedLen) + 1) =>
              /\ FetchStorePage(c) => page' = MaxPageIndex(feedLen)
              /\ (FetchRereadPage(c) /\ page = ClampedPage(feedLen)) =>
                    cmds' = Replace(c, [c EXCEPT
                                !.pc = "done",
                                !.start = MaxPageIndex(feedLen) * MAX,
                                !.end = feedLen])]_vars

\* C6: with the error set by a failed fetch, the delivery of the
\* loadedStoriesMsg of a fetch issued by "r" leaves the new story slots, no
\* error and loading false, so that View shows the list and not the error
\* screen.
C6_SuccessClearsError ==
    [][\A c \in Pending :
          (err = "error" /\ c.by \in {"r", "rl"}
             /\ UpdateLoadedStories(c, {})) =>
              (err' = "nil" /\ loading' = FALSE /\ Screen' # "error"
               /\ stories' = PageSlots(c.start, c.end, {}))]_vars

\* what "up" and "down" do to the two cursors
C7_NavStep ==
    /\ KeyUp =>
          IF commentsView
          THEN commentCursor' = Max(commentCursor - 1, 0) /\ cursor' = cursor
          ELSE cursor' = Max(cursor - 1, 0) /\ commentCursor' = commentCursor
    /\ KeyDown =>
          IF commentsView
          THEN /\ commentCursor' =
                     Min(commentCursor + 1, Max(Len(comments) - 1, 0))
               /\ cursor' = cursor
          ELSE /\ cursor' = Min(cursor + 1, MAX - 1)
               /\ commentCursor' = commentCursor

\* C7: the story cursor is always in 0..MAX-1 and the comment cursor in
\* 0..len(comments)-1 (0 for an empty list); "up" and "down" move the
\* cursor of the active mode by one, stay put at the first and at the last
\* item, and leave the other cursor alone.
C7_NavigationClamped ==
    /\ [](cursor \in 0..(MAX - 1)
          /\ commentCursor \in 0..Max(Len(comments) - 1, 0))
    /\ [][C7_NavStep]_vars

\* both cursors at the last item of their list
C7_Witness ==
    /\ cursor = MAX - 1
    /\ Len(comments) > 1 /\ commentCursor = Len(comments) - 1

\* C8: "c" flips the mode and changes neither the story cursor nor the page
\* counter, entering and leaving; "c" pressed twice in a row from Stories
\* mode therefore ends in Stories mode on the same cursor and page.
C8_ToggleRoundTrip ==
    [][KeyC => (/\ commentsView' = ~commentsView
                /\ cursor' = cursor
                /\ page' = page)]_vars

\* back in Stories mode, off the first story and the first page, with the
\* comments fetch of the toggle still running and no comment ever loaded
C8_Witness ==
    /\ ~commentsView /\ cursor = 1 /\ page = 1 /\ comments = <<>>
    /\ \E c \in Pending : c.kind = "comments"

\* C9: "r" pressed while loading adds a story fetch and leaves the story
\* slots alone, and that fetch reads the page counter as it was when "r"
\* was pressed (stated for id lists of at least one full page).
C9_RefreshSamePage ==
    [][/\ KeyR => (stories' = stories /\ BagCardinality(cmds') = InFlight + 1)
       /\ \A c \in Pending :
             (feedLen >= MAX /\ c.by = "rl" /\ FetchReadPage(c)) =>
                 page = c.issued]_vars

\* C10 as amended: with room for 9 of the 20 stories the window is (0,9)
\* at cursor 0, (11,20) at cursor 19 and (6,15) at cursor 10.
C10_WindowReferenceValues ==
    (~commentsView /\ StoriesMaxVisible(height) = 9) =>
        /\ cursor = 0 => Window = <<0, 9>>
        /\ cursor = 19 => Window = <<11, 20>>
        /\ cursor = 10 => Window = <<6, 15>>

\* C10 as stated: (5,14) at cursor 10
C10_Original ==
    (~commentsView /\ StoriesMaxVisible(height) = 9) =>
        /\ cursor = 0 => Window = <<0, 9>>
        /\ cursor = 19 => Window = <<11, 20>>
        /\ cursor = 10 => Window = <<5, 14>>

\* the stories list with room for 9 and the cursor in the middle
C10_Witness ==
    ~commentsView /\ StoriesMaxVisible(height) = 9 /\ cursor = 10

\* maxVisible as View computes it for the list of the active mode
MaxVisible ==
    IF commentsView THEN CommentsMaxVisible(height) ELSE StoriesMaxVisible(height)

\* C11: when no row is left for the list (height unknown, or too small: at
\* most 5 lines for stories, at most 2 for comments) View shows the whole
\* list, window <<0, total>>, in both modes alike; an empty list has the
\* window <<0, 0>>.
C11_DegenerateShowsAll ==
    Screen # "error" =>
        /\ ListRows <= 0 => Window = <<0, ListTotal>>
        /\ ListTotal = 0 => Window = <<0, 0>>

\* C12: whenever the list fits (maxVisible >= total, the height known) the
\* window is the whole list <<0, total>>, wherever the cursor is.
C12_FitsShowsAll ==
    (height > 0 /\ MaxVisible >= ListTotal) => Window = <<0, ListTotal>>

\* the stories list fitting exactly, the cursor on its last item
C12_Witness ==
    ~commentsView /\ StoriesMaxVisible(height) = MAX /\ cursor = MAX - 1

\* C13: pressing "c" in Stories mode does all of this in one transition:
\* Comments mode is entered, loading is set, the comment cursor is reset to
\* 0 and exactly one comments fetch is issued, for the story under the
\* cursor; the story cursor, the story slots and the page counter stay.
C13_EnterComments ==
    [][(~commentsView /\ KeyC) =>
          (/\ commentsView'
           /\ loading'
           /\ commentCursor' = 0
           /\ cmds' = cmds (+) SetToBag({CommentsCmd(stories[cursor + 1])})
           /\ UNCHANGED <<cursor, stories, page>>)]_vars

\* C14: pressing "c" in Comments mode returns to Stories mode, clears the
\* comment list and issues no fetch.
C14_LeaveClearsComments ==
    [][(commentsView /\ KeyC) =>
          (/\ ~commentsView'
           /\ comments' = <<>>
           /\ cmds' = cmds)]_vars

\* C15: the delivery of a failed story fetch sets the error and clears
\* loading; the story slots, both cursors, the comments, the mode and the
\* page counter stay as they were and the program keeps running.
C15_ErrorKeepsModel ==
    [][(\E c \in Pending : UpdateErr(c)) =>
          (/\ err' = "error"
           /\ ~loading'
           /\ UNCHANGED <<stories, cursor, comments, commentCursor,
                          commentsView, page>>
           /\ status' = "running")]_vars

\* a refresh failed with a loaded page on screen
C15_Witness ==
    err = "error" /\ ~loading /\ stories # ZeroStories /\ status = "running"

\* a story page arrives with one slot per requested id, in request order,
\* the slot of a failed item zero
StoriesSlotPerId(c, failed) ==
    /\ err' = err
    /\ \A i \in 1..(c.end - c.start) :
          stories'[i] = IF i \in failed THEN 0 ELSE c.start + i
\* a comment list arrives with one slot per requested id, in request order,
\* the slot of a failed item zero
CommentsSlotPerId(c, failed) ==
    /\ err' = err
    /\ Len(comments') = Len(c.kids)
    /\ \A i \in 1..Len(c.kids) :
          comments'[i] = IF i \in failed THEN <<0, 0>> ELSE c.kids[i]

\* C16: a failing item request never aborts its batch and never produces an
\* error: a story page and a comment list alike arrive with one slot per
\* requested id in request order, a failed item's slot zero and every other
\* item at the position of its id.
C16_PartialFailure ==
    [][\A c \in Pending, f \in FailSets :
          /\ UpdateLoadedStories(c, f) => StoriesSlotPerId(c, f)
          /\ UpdateLoadedComments(c, f) => CommentsSlotPerId(c, f)]_vars

\* C17: the page counter is written by Update alone, on the keys that
\* page forward and back: every step that changes it is such a key step,
\* never a step of a running fetch.
C17_PageWrittenByUpdateOnly ==
    [][page' # page =>
          \/ \E lost \in Storing : KeyPgUp(lost)
          \/ \E lost \in Storing : KeyPgDown(lost)]_vars

\* C18: when the list does not fit (1 <= maxVisible < total, the height
\* known) the window holds exactly maxVisible items, wherever the cursor
\* is, the tail of the list included.
C18_FullWindow ==
    (height > 0 /\ 1 <= MaxVisible /\ MaxVisible < ListTotal) =>
        Window[2] - Window[1] = MaxVisible

\* the stories list with room for 9 and the cursor on the last item, where
\* the centred window would run past the end
C18_Witness ==
    /\ ~commentsView /\ StoriesMaxVisible(height) = 9 /\ cursor = MAX - 1
    /\ cursor - GoDiv(9, 2) + 9 > MAX

\* C19: a story fetch never slices outside the id list, whatever the
\* number n of ids and the page counter: the program does not crash, and a
\* fetch that has taken its slice has 0 <= start <= end <= n and
\* end - start <= MAX.
C19_SliceInBounds ==
    /\ status # "crashed"
    /\ \A c \in Pending :
          (c.kind = "stories" /\ c.pc = "done") =>
              /\ 0 <= c.start /\ c.start <= c.end /\ c.end <= feedLen
              /\ c.end - c.start <= MAX

\* C20: while a fetch, of stories or of comments, is issued and its
\* completion not yet delivered, loading is true.
C20_LoadingTracksFetches ==
    (status = "running" /\ InFlight > 0) => loading

====
